---- MODULE Spec2Model ----
(***************************************************************************)
(* Model of dockers/generate_escape_targets.py: the generator that turns   *)
(* container-image metadata records into Dockerfiles and one compose file. *)
(*                                                                         *)
(* A Python str is a sequence of code points.  A code point is written as  *)
(* a one-character TLA+ string; the two non-ASCII code points the model    *)
(* needs are written by name: "U+0130" (LATIN CAPITAL LETTER I WITH DOT    *)
(* ABOVE) and "U+0307" (COMBINING DOT ABOVE), plus "U+00E9" (e acute).     *)
(*                                                                         *)
(* The file system is assumed to accept every write (no permission, name   *)
(* length or encoding error), and the output directory to be creatable.    *)
(***************************************************************************)
EXTENDS Integers, Sequences, FiniteSets, TLC

VARIABLES
    pc,                 \* position of main / process_json_files
    input_exists,       \* whether args.input_dir exists
    output_dir_made,    \* output_path.mkdir has run
    n_files,            \* len(json_files) once input_dir.glob has run, else -1
    input,              \* the JSON files opened so far, in processing order
    all_records,        \* process_json_files: all_records
    unique_records,     \* process_json_files: unique_records
    service_info_list,  \* process_json_files: service_info_list (and main's)
    writes,             \* every Dockerfile write of the run, in order
    compose_writes,     \* every write of docker-compose.escape-targets.yml
    stdout,             \* the lines printed, by kind
    exception           \* the exception that ended the run, or "none"

vars == <<pc, input_exists, output_dir_made, n_files, input, all_records,
          unique_records, service_info_list, writes, compose_writes, stdout,
          exception>>

(***************************************************************************)
(* Bounds of the model.                                                    *)
(***************************************************************************)
MaxFiles == 2
MaxItems == 3

(***************************************************************************)
(* Python str operations, on sequences of code points.                     *)
(***************************************************************************)
UpperAlpha == <<"A","B","C","D","E","F","G","H","I","J","K","L","M",
                "N","O","P","Q","R","S","T","U","V","W","X","Y","Z">>
LowerAlpha == <<"a","b","c","d","e","f","g","h","i","j","k","l","m",
                "n","o","p","q","r","s","t","u","v","w","x","y","z">>
Digits == {"0","1","2","3","4","5","6","7","8","9"}

\* str.strip() removes these (and the other Unicode white space) at both ends
Whitespace == {" ", "\t", "\n"}

\* str.lower() of one code point: U+0130 is the one code point whose
\* lowercase form is two code points long
LowerChar(c) ==
    IF \E i \in 1..26 : UpperAlpha[i] = c
    THEN <<LowerAlpha[CHOOSE i \in 1..26 : UpperAlpha[i] = c]>>
    ELSE IF c = "U+0130" THEN <<"i", "U+0307">>
    ELSE <<c>>

RECURSIVE Lower(_)
Lower(s) == IF s = <<>> THEN <<>> ELSE LowerChar(Head(s)) \o Lower(Tail(s))

\* Python's `sub in s`
Contains(s, sub) ==
    \E i \in 0..(Len(s) - Len(sub)) : SubSeq(s, i + 1, i + Len(sub)) = sub

\* str.replace(old, new) for one-code-point old and new
Replace(s, old, new) ==
    [i \in 1..Len(s) |-> IF s[i] = old THEN new ELSE s[i]]

LStrip(s) ==
    LET k == CHOOSE k \in 0..Len(s) :
                 /\ \A i \in 1..k : s[i] \in Whitespace
                 /\ (k < Len(s) => s[k + 1] \notin Whitespace)
    IN  SubSeq(s, k + 1, Len(s))

RStrip(s) ==
    LET k == CHOOSE k \in 0..Len(s) :
                 /\ \A i \in (k + 1)..Len(s) : s[i] \in Whitespace
                 /\ (k > 0 => s[k] \notin Whitespace)
    IN  SubSeq(s, 1, k)

Strip(s) == RStrip(LStrip(s))

(***************************************************************************)
(* The string literals of the script.                                      *)
(***************************************************************************)
ALPINE == <<"a","l","p","i","n","e">>
UBUNTU == <<"u","b","u","n","t","u">>
DEBIAN == <<"d","e","b","i","a","n">>
ALPINE_LATEST == ALPINE \o <<":","l","a","t","e","s","t">>
DEBIAN_BOOKWORM_SLIM ==
    DEBIAN \o <<":","b","o","o","k","w","o","r","m","-","s","l","i","m">>

TOOLS_BY_DISTRO ==
    [alpine |-> <<"socat", "curl", "wget", "netcat-openbsd", "strace",
                  "procps", "iproute2", "lsof", "findutils", "bash", "less">>,
     debian |-> <<"socat", "curl", "wget", "netcat-traditional", "strace",
                  "procps", "iproute2", "lsof", "findutils", "bash", "less">>]

(***************************************************************************)
(* Classifier.                                                             *)
(***************************************************************************)
guess_base_image_no_lower(name) ==
    IF Contains(name, ALPINE) THEN ALPINE_LATEST
    ELSE IF Contains(name, UBUNTU) \/ Contains(name, DEBIAN)
         THEN DEBIAN_BOOKWORM_SLIM
    ELSE ALPINE_LATEST

guess_base_image(name) ==
    LET name_lower == Lower(name)
    IN  IF Contains(name_lower, ALPINE) THEN ALPINE_LATEST
        ELSE IF Contains(name_lower, UBUNTU) \/ Contains(name_lower, DEBIAN)
             THEN DEBIAN_BOOKWORM_SLIM
        ELSE ALPINE_LATEST

detect_distro(base_image) ==
    IF Contains(base_image, ALPINE) THEN "alpine"
    ELSE IF Contains(base_image, DEBIAN) \/ Contains(base_image, UBUNTU)
         THEN "debian"
    ELSE "alpine"

\* install_cmd as its words; the script joins them with single spaces
install_cmd(distro) ==
    IF distro = "alpine"
    THEN <<"apk", "add", "--no-cache">> \o TOOLS_BY_DISTRO[distro]
    ELSE <<"apt-get", "update", "&&", "apt-get", "install", "-y",
           "--no-install-recommends">>
         \o TOOLS_BY_DISTRO[distro]
         \o <<"&&", "rm", "-rf", "/var/lib/apt/lists/*">>

\* The Dockerfile text, by the fields the template interpolates
generate_dockerfile(record) ==
    LET full_name  == record.namespace \o <<"/">> \o record.name
        base_image == guess_base_image(record.name)
        distro     == detect_distro(base_image)
    IN  [full_name   |-> full_name,
         description |-> record.description,
         base_image  |-> base_image,
         install_cmd |-> install_cmd(distro)]

(***************************************************************************)
(* Output names.                                                           *)
(***************************************************************************)
ServiceNameChars ==
    {LowerAlpha[i] : i \in 1..26} \cup Digits \cup {"-", "_"}

\* re.sub(r"[^a-z0-9\-_]", "_", name.lower())
sanitize_service_name_no_lower(name) ==
    [i \in 1..Len(name) |->
        IF name[i] \in ServiceNameChars THEN name[i] ELSE "_"]

sanitize_service_name(name) ==
    LET l == Lower(name)
    IN  [i \in 1..Len(l) |-> IF l[i] \in ServiceNameChars THEN l[i] ELSE "_"]

safe_name_no_dot(record) ==
    Replace(Replace(record.namespace \o <<"_">> \o record.name, "/", "_"),
            ":", "_")

safe_name(record) ==
    Replace(Replace(Replace(record.namespace \o <<"_">> \o record.name,
                            "/", "_"), ":", "_"), ".", "_")

DockerfileName(key) == <<"Dockerfile.">> \o key
ContainerName(key) == <<"escape-target-">> \o key

ServiceInfo(record) ==
    [service_name   |-> sanitize_service_name(safe_name(record)),
     dockerfile     |-> DockerfileName(safe_name(record)),
     container_name |-> ContainerName(safe_name(record))]

(***************************************************************************)
(* JSON input.  A field of an object is absent, a string, or another JSON  *)
(* value (a number, null, a list, ...).  An item of a file is an object or *)
(* another JSON value.                                                     *)
(***************************************************************************)
Absent == [kind |-> "absent", s |-> <<>>]
NotAString == [kind |-> "other", s |-> <<>>]
Str(s) == [kind |-> "str", s |-> s]

Dict(namespace, name, description) ==
    [kind |-> "dict", namespace |-> namespace, name |-> name,
     description |-> description]
NotADict ==
    [kind |-> "other", namespace |-> Absent, name |-> Absent,
     description |-> Absent]

ItemSamples ==
    { Dict(Str(<<"a","/","b">>),     Str(<<"c">>),      Str(<<"x">>)),
      Dict(Str(<<" ","a","/","b">>), Str(<<"c","\n">>), Str(<<"y">>)),
      Dict(Str(<<"a","_","b">>),     Str(<<"c">>),      Absent),
      Dict(Str(<<"A","_","b">>),     Str(<<"c">>),      Str(<<"x">>)),
      Dict(Str(<<"a">>),             Str(<<" ","\t">>), Str(<<"x">>)),
      Dict(Str(<<"a">>),             Absent,            Str(<<"x">>)),
      NotADict,
      Dict(Str(<<"a">>),             NotAString,        Str(<<"x">>)) }

\* What json.load gives for one file: an exception, a list, or one value
InvalidJson == [kind |-> "invalid", elems |-> <<>>]
FileData(n) ==
    {InvalidJson}
    \cup {[kind |-> "list", elems |-> e] :
             e \in UNION {[1..k -> ItemSamples] : k \in 0..n}}
    \cup (IF n >= 1
          THEN {[kind |-> "value", elems |-> <<v>>] : v \in ItemSamples}
          ELSE {})

\* items = data if isinstance(data, list) else [data]
Items(data) == IF data.kind = "list" THEN data.elems ELSE <<data.elems[1]>>

RECURSIVE ItemsRead(_)
ItemsRead(files) ==
    IF files = <<>> THEN 0
    ELSE Len(Head(files).elems) + ItemsRead(Tail(files))

(***************************************************************************)
(* Loader: the body of `for item in items`.                                *)
(***************************************************************************)
\* item.get(key, "").strip() raises AttributeError on a value without strip
StripRaises(field) == field.kind = "other"
GetStripped(field) == Strip(field.s)

\* the loop over one file's items: the records appended, and whether the
\* loop ended in AttributeError
RECURSIVE LoadItems(_, _, _)
LoadItems(items, source_file, acc) ==
    IF items = <<>> THEN [records |-> acc, raised |-> FALSE]
    ELSE LET item == Head(items) IN
         IF item.kind # "dict"
         THEN LoadItems(Tail(items), source_file, acc)
         ELSE IF StripRaises(item.name) \/ StripRaises(item.namespace)
         THEN [records |-> acc, raised |-> TRUE]
         ELSE LET name == GetStripped(item.name)
                  namespace == GetStripped(item.namespace)
              IN  IF name = <<>> \/ namespace = <<>>
                  THEN LoadItems(Tail(items), source_file, acc)
                  ELSE LoadItems(Tail(items), source_file,
                           Append(acc, [name |-> name,
                                        namespace |-> namespace,
                                        description |-> item.description.s,
                                        source_file |-> source_file]))

(***************************************************************************)
(* Deduplication: the loop over all_records with the seen set.             *)
(***************************************************************************)
Key(r) == <<r.namespace, r.name>>

RECURSIVE DedupFrom(_, _, _)
DedupFrom(records, seen, unique) ==
    IF records = <<>> THEN unique
    ELSE LET r == Head(records) IN
         IF Key(r) \notin seen
         THEN DedupFrom(Tail(records), seen \cup {Key(r)}, Append(unique, r))
         ELSE DedupFrom(Tail(records), seen, unique)

(***************************************************************************)
(* Compose emitter: one stanza per ServiceInfo, in list order.             *)
(***************************************************************************)
Stanza(info) ==
    [service_name   |-> info.service_name,
     dockerfile     |-> info.dockerfile,
     container_name |-> info.container_name,
     privileged     |-> FALSE]

generate_docker_compose_drop_last(list) ==
    [i \in 1..(Len(list) - 1) |-> Stanza(list[i])]

generate_docker_compose(list) ==
    [i \in 1..Len(list) |-> Stanza(list[i])]

(***************************************************************************)
(* main and process_json_files, step by step.                              *)
(***************************************************************************)
Init ==
    /\ pc = "main"
    /\ input_exists \in BOOLEAN
    /\ output_dir_made = FALSE
    /\ n_files = -1
    /\ input = <<>>
    /\ all_records = <<>>
    /\ unique_records = <<>>
    /\ service_info_list = <<>>
    /\ writes = <<>>
    /\ compose_writes = <<>>
    /\ stdout = <<>>
    /\ exception = "none"

\* output_path.mkdir(parents=True, exist_ok=True)
Mkdir ==
    /\ pc = "main"
    /\ output_dir_made' = TRUE
    /\ pc' = "check_input"
    /\ UNCHANGED <<input_exists, n_files, input, all_records, unique_records,
                   service_info_list, writes, compose_writes, stdout,
                   exception>>

InputMissing_never == FALSE

InputMissing == ~input_exists

\* if not input_path.exists(): raise FileNotFoundError
CheckInput ==
    /\ pc = "check_input"
    /\ IF InputMissing
       THEN /\ pc' = "raised"
            /\ exception' = "FileNotFoundError"
       ELSE /\ pc' = "glob"
            /\ UNCHANGED exception
    /\ UNCHANGED <<input_exists, output_dir_made, n_files, input, all_records,
                   unique_records, service_info_list, writes, compose_writes,
                   stdout>>

\* json_files = list(input_dir.glob("*.json")), and the early return
Glob ==
    /\ pc = "glob"
    /\ \E n \in 0..(IF input_exists THEN MaxFiles ELSE 0) :
        /\ n_files' = n
        /\ IF n = 0
           THEN /\ stdout' = Append(stdout, "no_json_files")
                /\ pc' = "returned"
           ELSE /\ pc' = "load"
                /\ UNCHANGED stdout
    /\ UNCHANGED <<input_exists, output_dir_made, input, all_records,
                   unique_records, service_info_list, writes, compose_writes,
                   exception>>

\* one iteration of `for json_file in json_files`
LoadFile ==
    /\ pc = "load"
    /\ Len(input) < n_files
    /\ \E data \in FileData(MaxItems - ItemsRead(input)) :
        /\ input' = Append(input, data)
        /\ IF data.kind = "invalid"
           THEN /\ stdout' = stdout \o <<"processing", "skip_invalid_json">>
                /\ UNCHANGED <<pc, all_records, exception>>
           ELSE LET r == LoadItems(Items(data), Len(input) + 1, all_records)
                IN  /\ stdout' = Append(stdout, "processing")
                    /\ all_records' = r.records
                    /\ IF r.raised
                       THEN /\ pc' = "raised"
                            /\ exception' = "AttributeError"
                       ELSE UNCHANGED <<pc, exception>>
    /\ UNCHANGED <<input_exists, output_dir_made, n_files, unique_records,
                   service_info_list, writes, compose_writes>>

\* the deduplication loop, once every file has been read
Dedup ==
    /\ pc = "load"
    /\ Len(input) = n_files
    /\ unique_records' = DedupFrom(all_records, {}, <<>>)
    /\ pc' = "generate"
    /\ UNCHANGED <<input_exists, output_dir_made, n_files, input, all_records,
                   service_info_list, writes, compose_writes, stdout,
                   exception>>

\* one iteration of `for record in unique_records`
GenerateOne ==
    /\ pc = "generate"
    /\ Len(service_info_list) < Len(unique_records)
    /\ LET record == unique_records[Len(service_info_list) + 1]
       IN  /\ writes' = Append(writes,
                   [path    |-> DockerfileName(safe_name(record)),
                    content |-> generate_dockerfile(record)])
           /\ service_info_list' =
                   Append(service_info_list, ServiceInfo(record))
    /\ stdout' = Append(stdout, "generated")
    /\ UNCHANGED <<pc, input_exists, output_dir_made, n_files, input,
                   all_records, unique_records, compose_writes, exception>>

\* return service_info_list
Return ==
    /\ pc = "generate"
    /\ Len(service_info_list) = Len(unique_records)
    /\ pc' = "returned"
    /\ UNCHANGED <<input_exists, output_dir_made, n_files, input, all_records,
                   unique_records, service_info_list, writes, compose_writes,
                   stdout, exception>>

\* if service_info_list: generate_docker_compose(...) and the summary
Compose ==
    /\ pc = "returned"
    /\ service_info_list # <<>>
    /\ compose_writes' =
           Append(compose_writes, generate_docker_compose(service_info_list))
    /\ stdout' = stdout \o <<"compose_written", "summary", "usage">>
    /\ pc' = "done"
    /\ UNCHANGED <<input_exists, output_dir_made, n_files, input, all_records,
                   unique_records, service_info_list, writes, exception>>

\* else: print("no services generated")
NoServices ==
    /\ pc = "returned"
    /\ service_info_list = <<>>
    /\ stdout' = Append(stdout, "no_services")
    /\ pc' = "done"
    /\ UNCHANGED <<input_exists, output_dir_made, n_files, input, all_records,
                   unique_records, service_info_list, writes, compose_writes,
                   exception>>

Next ==
    \/ Mkdir
    \/ CheckInput
    \/ Glob
    \/ LoadFile
    \/ Dedup
    \/ GenerateOne
    \/ Return
    \/ Compose
    \/ NoServices

Spec == Init /\ [][Next]_vars

(***************************************************************************)
(* The classifier and the output names on their own: the state after one   *)
(* file holding one valid object has been loaded and deduplicated, for a   *)
(* range of namespaces, names and descriptions.                            *)
(***************************************************************************)
FnNames ==
    { <<"c","u","r","l">>,
      ALPINE,
      <<"A","L","P","I","N","E">>,
      <<"m","y",".","A","l","p","i","n","e",":","3">>,
      UBUNTU,
      <<"U","b","u","n","t","u","-","x">>,
      DEBIAN,
      <<"x","/","D","E","B","I","A","N">>,
      ALPINE \o <<"-">> \o UBUNTU,
      DEBIAN \o <<"_">> \o <<"A","l","p","i","n","e">>,
      <<"a","l","p","i","n">>,
      <<"U+0130","x">>,
      <<"c","a","f","U+00E9">>,
      <<"a"," ","b">>,
      <<"A",".","b",":","c","/","d">>,
      <<"x","-","9","_","y">> }

FnNamespaces ==
    { <<"l","i","b","r","a","r","y">>,
      <<"a","/","b">>,
      <<"a","_","b">>,
      <<"M","y",".","O","r","g">>,
      <<"n",":","s","U+0130">>,
      UBUNTU }

FnDescriptions == { <<>>, <<"t","e","s","t">> }

InitFn ==
    \E ns \in FnNamespaces, name \in FnNames, d \in FnDescriptions :
        LET r == [name |-> name, namespace |-> ns, description |-> d,
                  source_file |-> 1]
        IN  /\ pc = "generate"
            /\ input_exists = TRUE
            /\ output_dir_made = TRUE
            /\ n_files = 1
            /\ input = <<[kind |-> "value",
                          elems |-> <<Dict(Str(ns), Str(name), Str(d))>>]>>
            /\ all_records = <<r>>
            /\ unique_records = <<r>>
            /\ service_info_list = <<>>
            /\ writes = <<>>
            /\ compose_writes = <<>>
            /\ stdout = <<"processing">>
            /\ exception = "none"

NextFn ==
    \/ GenerateOne
    \/ Return
    \/ Compose

SpecFn == InitFn /\ [][NextFn]_vars

(***************************************************************************)
(* Vocabulary of the claims.                                               *)
(***************************************************************************)
Terminated == pc \in {"done", "raised"}

\* an item the loader is to keep: an object whose name and namespace are
\* strings that are not empty once trimmed
ValidItem(item) ==
    /\ item.kind = "dict"
    /\ item.name.kind = "str"
    /\ item.namespace.kind = "str"
    /\ Strip(item.name.s) # <<>>
    /\ Strip(item.namespace.s) # <<>>

ItemKey(item) == <<Strip(item.namespace.s), Strip(item.name.s)>>

\* every item of the files read, in processing order, with its file
RECURSIVE Flatten(_, _)
Flatten(files, first_idx) ==
    IF files = <<>> THEN <<>>
    ELSE [i \in 1..Len(Head(files).elems) |->
              [item |-> Head(files).elems[i], source_file |-> first_idx]]
         \o Flatten(Tail(files), first_idx + 1)

FlatInput == Flatten(input, 1)

ValidPositions == {i \in 1..Len(FlatInput) : ValidItem(FlatInput[i].item)}
ValidKeys == {ItemKey(FlatInput[i].item) : i \in ValidPositions}
PositionsOf(k) == {i \in ValidPositions : ItemKey(FlatInput[i].item) = k}
FirstOf(k) ==
    FlatInput[CHOOSE i \in PositionsOf(k) : \A j \in PositionsOf(k) : i <= j]
DuplicatedKeys == {k \in ValidKeys : Cardinality(PositionsOf(k)) >= 2}

\* the i-th Dockerfile write and the i-th service entry are those of the
\* i-th record of unique_records
DockerfilesFor(k) ==
    {i \in 1..Len(writes) :
        i <= Len(unique_records) /\ Key(unique_records[i]) = k}
StanzasFor(k) ==
    IF compose_writes = <<>> THEN {}
    ELSE {i \in 1..Len(compose_writes[1]) :
             i <= Len(unique_records) /\ Key(unique_records[i]) = k}

FullName(r) == r.namespace \o <<"/">> \o r.name

\* case-insensitive occurrence of a lower-case ASCII word in a name
SameLetterCI(c, d) ==
    c = d \/ \E k \in 1..26 : UpperAlpha[k] = c /\ LowerAlpha[k] = d
ContainsCI(s, w) ==
    \E i \in 0..(Len(s) - Len(w)) :
        \A j \in 1..Len(w) : SameLetterCI(s[i + j], w[j])

AlpineShape(content) ==
    /\ content.base_image = ALPINE_LATEST
    /\ content.install_cmd =
           <<"apk", "add", "--no-cache">> \o TOOLS_BY_DISTRO.alpine
DebianShape(content) ==
    content.install_cmd =
        <<"apt-get", "update", "&&", "apt-get", "install", "-y",
          "--no-install-recommends">>
        \o TOOLS_BY_DISTRO.debian
        \o <<"&&", "rm", "-rf", "/var/lib/apt/lists/*">>

DnsSafeChars ==
    {"a","b","c","d","e","f","g","h","i","j","k","l","m","n","o","p","q",
     "r","s","t","u","v","w","x","y","z","0","1","2","3","4","5","6","7",
     "8","9","_","-"}

\* the sanitized key of a Dockerfile path "Dockerfile.<key>"
KeyOfPath(path) == Tail(path)

CountOf(s, c) == Cardinality({i \in 1..Len(s) : s[i] = c})

(***************************************************************************)
(* C1.                                                                     *)
(***************************************************************************)
DedupHolds ==
    \A k \in DuplicatedKeys :
        /\ Cardinality(DockerfilesFor(k)) = 1
        /\ Cardinality(StanzasFor(k)) = 1
        /\ \E i \in 1..Len(unique_records) :
              /\ Key(unique_records[i]) = k
              /\ unique_records[i].description = FirstOf(k).item.description.s
              /\ unique_records[i].source_file = FirstOf(k).source_file

\* C1: once the run has ended, every (namespace, name) pair that two or more
\* valid input items share (after trimming) has exactly one Dockerfile write
\* and exactly one compose stanza, and the record kept for it carries the
\* description and source_file of its first occurrence.
C1_DedupOneOutputPerPair == Terminated /\ input_exists => DedupHolds

\* The same on the runs that end normally: the deduplication loop itself
\* keeps one record per pair, the first.
DedupWhenRunCompletes == pc = "done" => DedupHolds

(***************************************************************************)
(* C2.                                                                     *)
(***************************************************************************)
\* C2 as claimed: every Dockerfile written for a record whose name contains
\* "alpine" (any case) has base alpine:latest and the apk command with the
\* alpine tools; every one whose name contains "ubuntu" or "debian" has the
\* apt-get command with the debian tools; every other has the alpine shape.
C2_ClassifierAsClaimed ==
    \A i \in 1..Len(writes) :
        LET name == unique_records[i].name
            c    == writes[i].content
        IN  /\ ContainsCI(name, ALPINE) => AlpineShape(c)
            /\ ContainsCI(name, UBUNTU) \/ ContainsCI(name, DEBIAN)
                   => DebianShape(c)
            /\ ~(ContainsCI(name, ALPINE) \/ ContainsCI(name, UBUNTU)
                    \/ ContainsCI(name, DEBIAN)) => AlpineShape(c)

\* C2 amended: "alpine" takes precedence.  A name containing "alpine" (any
\* case) yields alpine:latest and the apk command with the alpine tools; a
\* name containing "ubuntu" or "debian" and not "alpine" yields the apt-get
\* command with the debian tools (on debian:bookworm-slim); every other
\* name yields the alpine shape.  The shape is fixed by the name alone.
C2_ClassifierAlpineFirst ==
    \A i \in 1..Len(writes) :
        LET name == unique_records[i].name
            c    == writes[i].content
        IN  IF ContainsCI(name, ALPINE) THEN AlpineShape(c)
            ELSE IF ContainsCI(name, UBUNTU) \/ ContainsCI(name, DEBIAN)
                 THEN DebianShape(c) /\ c.base_image = DEBIAN_BOOKWORM_SLIM
            ELSE AlpineShape(c)

C2_Witness ==
    /\ writes # <<>>
    /\ ContainsCI(unique_records[1].name, ALPINE)
    /\ ContainsCI(unique_records[1].name, DEBIAN)
    /\ unique_records[1].name # Lower(unique_records[1].name)
    /\ AlpineShape(writes[1].content)

(***************************************************************************)
(* C3.                                                                     *)
(***************************************************************************)
\* C3: when the run has ended normally, the number of distinct Dockerfile
\* paths written equals the number of unique records.
C3_OneDockerfilePerRecord ==
    pc = "done" =>
        Cardinality({writes[i].path : i \in 1..Len(writes)})
            = Len(unique_records)

(***************************************************************************)
(* C4.                                                                     *)
(***************************************************************************)
\* C4: the sanitized key of every Dockerfile written contains no "/", ":"
\* or "." code point.
C4_SafeNameHasNoSeparators ==
    \A i \in 1..Len(writes) :
        \A j \in 1..Len(KeyOfPath(writes[i].path)) :
            KeyOfPath(writes[i].path)[j] \notin {"/", ":", "."}

C4_Witness ==
    /\ writes # <<>>
    /\ \A c \in {"/", ":", "."} :
          \E j \in 1..Len(FullName(unique_records[1])) :
              FullName(unique_records[1])[j] = c
    /\ Contains(unique_records[1].name, <<".">>)

(***************************************************************************)
(* C5.                                                                     *)
(***************************************************************************)
\* C5 as claimed: every service name consists of code points in [a-z0-9_-]
\* only and is as long as the sanitized key it was derived from.
C5_ServiceNameAsClaimed ==
    \A i \in 1..Len(service_info_list) :
        LET sn  == service_info_list[i].service_name
            key == KeyOfPath(service_info_list[i].dockerfile)
        IN  /\ \A j \in 1..Len(sn) : sn[j] \in DnsSafeChars
            /\ Len(sn) = Len(key)

\* C5 amended: every service name consists of code points in [a-z0-9_-]
\* only, and its length is that of the sanitized key plus one for every
\* U+0130 in the key (whose lowercase form is two code points); it has the
\* key's length whenever the key holds no U+0130.
C5_ServiceNameSafeAndLength ==
    \A i \in 1..Len(service_info_list) :
        LET sn  == service_info_list[i].service_name
            key == KeyOfPath(service_info_list[i].dockerfile)
        IN  /\ \A j \in 1..Len(sn) : sn[j] \in DnsSafeChars
            /\ Len(sn) = Len(key) + CountOf(key, "U+0130")

C5_Witness ==
    /\ service_info_list # <<>>
    /\ LET sn  == service_info_list[1].service_name
           key == KeyOfPath(service_info_list[1].dockerfile)
       IN  /\ CountOf(key, "U+0130") = 1
           /\ Len(sn) = Len(key) + 1
           /\ \E j \in 1..Len(key) : key[j] \notin DnsSafeChars
           /\ \E j \in 1..Len(key) : \E k \in 1..26 : key[j] = UpperAlpha[k]

(***************************************************************************)
(* C6.                                                                     *)
(***************************************************************************)
\* C6: when the input directory exists the run raises nothing, and when it
\* has ended every valid item of the files read has its Dockerfile write
\* and its service entry.
C6_NeverRaisesAndKeepsValid ==
    input_exists =>
        /\ exception = "none"
        /\ pc # "raised"
        /\ pc = "done" =>
              \A k \in ValidKeys :
                  \E i \in 1..Len(unique_records) :
                      /\ Key(unique_records[i]) = k
                      /\ i <= Len(writes)
                      /\ i <= Len(service_info_list)

(***************************************************************************)
(* C7.                                                                     *)
(***************************************************************************)
\* C7: when a run over an existing input directory has ended, the compose
\* file has been written if and only if the files read hold a valid item;
\* and when they hold none, the service list is empty, no Dockerfile and no
\* compose file has been written, and the last line printed is the "no
\* services generated" message.
C7_ComposeIffValidRecord ==
    Terminated /\ input_exists =>
        /\ (compose_writes # <<>>) <=> (ValidKeys # {})
        /\ ValidKeys = {} =>
              /\ service_info_list = <<>>
              /\ writes = <<>>
              /\ compose_writes = <<>>
              /\ pc = "done"
              /\ stdout # <<>>
              /\ stdout[Len(stdout)] = "no_services"

(***************************************************************************)
(* C8.                                                                     *)
(***************************************************************************)
\* C8: when the input directory does not exist, the run never lists or
\* reads input, never writes a Dockerfile or the compose file, never ends
\* normally, and ends only by raising FileNotFoundError.
C8_MissingInputIsFatal ==
    ~input_exists =>
        /\ n_files = -1
        /\ input = <<>>
        /\ writes = <<>>
        /\ compose_writes = <<>>
        /\ pc \in {"main", "check_input", "raised"}
        /\ pc = "raised" => exception = "FileNotFoundError"

C8_Witness ==
    /\ ~input_exists
    /\ pc = "raised"
    /\ exception = "FileNotFoundError"
    /\ output_dir_made

(***************************************************************************)
(* C9.                                                                     *)
(***************************************************************************)
\* C9: the service names of the stanzas of the compose document are
\* pairwise distinct.
C9_ServiceNamesDistinct ==
    \A d \in 1..Len(compose_writes) :
        \A i, j \in 1..Len(compose_writes[d]) :
            i # j => compose_writes[d][i].service_name
                         # compose_writes[d][j].service_name

====
